---- MODULE Spec2Model ----
(***************************************************************************)
(* Model of the OCR provider adapters (providers/aliyun_ocr.py and         *)
(* providers/qwen_ocr.py): the retrying _execute loop, the conversion of   *)
(* the provider's reply into OcrTextSpan values (_parse_blocks and its     *)
(* helpers), the confidence filter and the assembly of the OcrResult.      *)
(*                                                                         *)
(* JSON / Python values are tagged records:                                *)
(*   [t |-> "null"]                 None                                   *)
(*   [t |-> "num",  v |-> n]        int / float (integers here, in the     *)
(*                                  provider's own scale)                  *)
(*   [t |-> "bool", v |-> b]        bool (an int for isinstance)           *)
(*   [t |-> "str",  v |-> <<c..>>]  str, a sequence of characters          *)
(*   [t |-> "list", v |-> <<..>>]   list                                   *)
(*   [t |-> "dict", v |-> <<<<k, x>>, ..>>]  dict, in insertion order      *)
(*   [t |-> "obj",  v |-> <<<<a, x>>, ..>>]  object with attributes        *)
(*   [t |-> "exc",  kind, msg]      an exception                           *)
(*   [t |-> "poly", v |-> <<..>>]   a polygon, a list of coordinate tuples *)
(*   [t |-> "span", ...]            an OcrTextSpan                         *)
(*   [t |-> "raise", v |-> kind]    an exception raised while parsing      *)
(***************************************************************************)
EXTENDS Integers, Sequences, FiniteSets, TLC

VARIABLES
  backend,    \* which adapter: "aliyun" (AliyunOcrClient) or "qwen" (QwenOcrClient)
  retries,    \* self.retries
  backoff,    \* self.backoff
  min_conf,   \* recognize's min_conf
  reply,      \* what the provider answers when the call gets through
  pc,         \* "execute", "returned", "raised", "done" or "parse_raised"
  attempt,    \* _execute's loop variable
  calls,      \* how many times call() has been invoked
  sleeps,     \* the waits given to time.sleep, in order
  outcomes,   \* what each call() did: an exception or a response
  failures,   \* the exception caught in each failed attempt
  raised,     \* the exception that left recognize, if any
  response,   \* what _execute returned
  raw,        \* recognize's raw
  cands,      \* _parse_blocks' candidates / nodes
  parsed,     \* what _parse_blocks returned (or raised)
  result      \* the OcrResult returned by recognize

vars == <<backend, retries, backoff, min_conf, reply,
          pc, attempt, calls, sleeps, outcomes, failures, raised,
          response, raw, cands, parsed, result>>

(***************************************************************************)
(* Bounds of the model and constants of the program.                       *)
(***************************************************************************)
MaxRetries == 3
MaxItems == 3
MaxCoord == 4
SuccessStatus == 200
DefaultStatus == 500

(***************************************************************************)
(* Values.                                                                 *)
(***************************************************************************)
Null == [t |-> "null"]
Num(n) == [t |-> "num", v |-> n]
Bool(b) == [t |-> "bool", v |-> b]
Str(s) == [t |-> "str", v |-> s]
List(s) == [t |-> "list", v |-> s]
Dict(s) == [t |-> "dict", v |-> s]
Obj(s) == [t |-> "obj", v |-> s]
Exc(kind, msg) == [t |-> "exc", kind |-> kind, msg |-> msg]
Poly(points) == [t |-> "poly", v |-> points]
Raise(kind) == [t |-> "raise", v |-> kind]

NL == "\n"
Digits == <<"0", "1", "2", "3", "4", "5", "6", "7", "8", "9">>

SeqMin(S) == CHOOSE x \in S : \A y \in S : x <= y
SeqMax(S) == CHOOSE x \in S : \A y \in S : x >= y

\* key in d / hasattr(o, key)
Has(d, k) == d.t \in {"dict", "obj"} /\ \E i \in 1..Len(d.v) : d.v[i][1] = k

\* d.get(k): the value, None when the key is absent
Get(d, k) ==
  IF Has(d, k) THEN d.v[CHOOSE i \in 1..Len(d.v) : d.v[i][1] = k][2] ELSE Null

\* d.get(k, default) / getattr(o, k, default)
GetDefault(d, k, default) == IF Has(d, k) THEN Get(d, k) ELSE default

\* hasattr(o, name): only objects carry attributes
HasAttr(o, name) == o.t = "obj" /\ Has(o, name)

\* Python truthiness, as used by `or`
Truthy(x) ==
  CASE x.t = "null" -> FALSE
    [] x.t = "num" -> x.v # 0
    [] x.t = "bool" -> x.v
    [] x.t \in {"str", "list", "dict"} -> Len(x.v) > 0
    [] OTHER -> TRUE

\* a or b
Or(a, b) == IF Truthy(a) THEN a ELSE b

\* isinstance(x, (int, float))
IsNumber(x) == x.t \in {"num", "bool"}

\* float(x) for an int, float or bool
NumVal(x) == IF x.t = "bool" THEN (IF x.v THEN 1 ELSE 0) ELSE x.v

\* str.strip(): whitespace removed from both ends
IsSpace(c) == c \in {" ", NL}
Strip(s) ==
  LET keep == {i \in 1..Len(s) : ~IsSpace(s[i])}
  IN IF keep = {} THEN <<>> ELSE SubSeq(s, SeqMin(keep), SeqMax(keep))

IsDigit(c) == \E i \in 1..Len(Digits) : Digits[i] = c
DigitVal(c) == (CHOOSE i \in 1..Len(Digits) : Digits[i] = c) - 1

RECURSIVE Decimal(_)
Decimal(s) ==
  IF s = <<>> THEN 0
  ELSE 10 * Decimal(SubSeq(s, 1, Len(s) - 1)) + DigitVal(s[Len(s)])

\* float(x): numbers convert, a string is parsed after trimming (digits only
\* in this alphabet) or raises ValueError, anything else raises TypeError.
\* The result is a number value or Raise(kind).
FloatOf(x) ==
  CASE IsNumber(x) -> Num(NumVal(x))
    [] x.t = "str" ->
         LET s == Strip(x.v)
         IN IF s # <<>> /\ \A i \in 1..Len(s) : IsDigit(s[i])
            THEN Num(Decimal(s)) ELSE Raise("ValueError")
    [] OTHER -> Raise("TypeError")

(***************************************************************************)
(* Field extraction shared by both adapters.                               *)
(***************************************************************************)
\* Variant: the value is returned as found, not trimmed.
RECURSIVE FirstTextUntrimmed(_, _)
FirstTextUntrimmed(item, keys) ==
  IF keys = <<>> THEN <<>>
  ELSE LET value == Get(item, Head(keys))
       IN IF value.t = "str" /\ Strip(value.v) # <<>>
          THEN value.v
          ELSE FirstTextUntrimmed(item, Tail(keys))

\* for key in keys: value = item.get(key);
\*   if isinstance(value, str) and value.strip(): return value.strip()
\* return ""
RECURSIVE FirstText(_, _)
FirstText(item, keys) ==
  IF keys = <<>> THEN <<>>
  ELSE LET value == Get(item, Head(keys))
       IN IF value.t = "str" /\ Strip(value.v) # <<>>
          THEN Strip(value.v)
          ELSE FirstText(item, Tail(keys))

\* for key in keys: value = item.get(key);
\*   if isinstance(value, (int, float)): return float(value)
\* return None
RECURSIVE FirstNumber(_, _)
FirstNumber(item, keys) ==
  IF keys = <<>> THEN Null
  ELSE LET value == Get(item, Head(keys))
       IN IF IsNumber(value) THEN Num(NumVal(value))
          ELSE FirstNumber(item, Tail(keys))

\* The first Raise among a sequence of results, Null when there is none.
FirstRaise(rs) ==
  LET bad == {i \in 1..Len(rs) : rs[i].t = "raise"}
  IN IF bad = {} THEN Null ELSE rs[SeqMin(bad)]

\* tuple(float(coord) for coord in point[:2]): a list gives its first two
\* entries, a string its first two characters, anything else cannot be sliced.
PointTuple(point) ==
  IF point.t \notin {"list", "str"} THEN Raise("TypeError")
  ELSE LET n == IF Len(point.v) < 2 THEN Len(point.v) ELSE 2
           coords == [i \in 1..n |->
                        IF point.t = "list" THEN point.v[i] ELSE Str(<<point.v[i]>>)]
           floats == [i \in 1..n |-> FloatOf(coords[i])]
       IN IF FirstRaise(floats) # Null THEN FirstRaise(floats)
          ELSE [t |-> "tuple", v |-> [i \in 1..n |-> floats[i].v]]

\* [tuple(float(coord) for coord in point[:2]) for point in points]
PointList(points) ==
  LET tuples == [i \in 1..Len(points) |-> PointTuple(points[i])]
  IN IF FirstRaise(tuples) # Null THEN FirstRaise(tuples)
     ELSE Poly([i \in 1..Len(points) |-> tuples[i].v])

\* iterator = iter(points)
\* [tuple(float(a) for a in pair) for pair in zip(iterator, iterator)]
\* (an odd last element is left over and lost)
FlatPairs(points) ==
  Poly([k \in 1..(Len(points) \div 2) |->
          <<NumVal(points[2 * k - 1]), NumVal(points[2 * k])>>])

\* isinstance(p, list) and p and isinstance(p[0], (list, tuple))
IsPointListShape(p) == p.t = "list" /\ Len(p.v) > 0 /\ p.v[1].t = "list"

\* isinstance(p, list) and all(isinstance(val, (int, float)) for val in p)
IsFlatShape(p) == p.t = "list" /\ \A i \in 1..Len(p.v) : IsNumber(p.v[i])

(***************************************************************************)
(* AliyunOcrClient helpers.                                                *)
(***************************************************************************)
AliyunTextKeys == <<"Text", "Word", "Content", "text">>
AliyunConfKeys == <<"Score", "Confidence", "Prob">>
AliyunListKeys == <<"Results", "PrismWordsInfo", "Lines", "Blocks">>

AliyunToDict(resp) ==
  IF HasAttr(resp, "to_map") THEN Get(resp, "to_map")
  ELSE IF HasAttr(resp, "body") /\ HasAttr(Get(resp, "body"), "to_map")
       THEN Dict(<< <<"body", Get(Get(resp, "body"), "to_map")>> >>)
  ELSE IF resp.t = "dict" THEN resp
  ELSE IF resp # Null THEN Dict(<< <<"body", resp>> >>)
  ELSE Dict(<<>>)

AliyunExtractBody(payload) ==
  LET body == IF payload.t = "dict" THEN Get(payload, "body") ELSE Null
  IN IF body.t = "dict" THEN GetDefault(body, "Data", body) ELSE payload

RECURSIVE AliyunCollectFrom(_, _)
AliyunCollectFrom(data, keys) ==
  IF keys = <<>> THEN <<>>
  ELSE LET items == Get(data, Head(keys))
           found == IF items.t = "list"
                    THEN SelectSeq(items.v, LAMBDA item : item.t = "dict")
                    ELSE <<>>
       IN found \o AliyunCollectFrom(data, Tail(keys))

AliyunCollectCandidates(data) ==
  IF data.t # "dict" THEN <<>> ELSE AliyunCollectFrom(data, AliyunListKeys)

AliyunExtractText(item) == FirstText(item, AliyunTextKeys)

AliyunExtractConfidence(item) == FirstNumber(item, AliyunConfKeys)

AliyunExtractPolygon(item) ==
  LET points == Or(Or(Get(item, "Polygon"), Get(item, "Quad")), Get(item, "Points"))
  IN IF IsPointListShape(points) THEN PointList(points.v)
     ELSE IF IsFlatShape(points) THEN FlatPairs(points.v)
     ELSE Null

(***************************************************************************)
(* QwenOcrClient helpers.                                                  *)
(***************************************************************************)
QwenTextKeys == <<"text", "content", "value">>
QwenConfKeys == <<"confidence", "score", "probability", "prob">>

QwenSerializeResponse(resp) ==
  LET base == [k \in {"status_code", "request_id", "code", "message", "output", "usage"}
                 |-> GetDefault(resp, k, Null)]
      extra == IF HasAttr(resp, "to_dict") THEN Get(resp, "to_dict") ELSE Dict(<<>>)
      val(k) == IF Has(extra, k) THEN Get(extra, k) ELSE base[k]
  IN Dict(<< <<"status_code", val("status_code")>>, <<"request_id", val("request_id")>>,
             <<"code", val("code")>>, <<"message", val("message")>>,
             <<"output", val("output")>>, <<"usage", val("usage")>> >>)

RECURSIVE QwenWalkNodes(_), QwenWalkEach(_)
QwenWalkNodes(data) ==
  IF data.t = "dict"
  THEN (IF \E i \in 1..Len(QwenTextKeys) : Has(data, QwenTextKeys[i])
        THEN <<data>> ELSE <<>>)
       \o QwenWalkEach([i \in 1..Len(data.v) |-> data.v[i][2]])
  ELSE IF data.t = "list" THEN QwenWalkEach(data.v)
  ELSE <<>>
QwenWalkEach(items) ==
  IF items = <<>> THEN <<>>
  ELSE QwenWalkNodes(Head(items)) \o QwenWalkEach(Tail(items))

QwenCollectTextNodes(data) == QwenWalkNodes(data)

QwenExtractText(node) == FirstText(node, QwenTextKeys)

QwenExtractConfidence(node) == FirstNumber(node, QwenConfKeys)

\* x = float(bbox.get("x", 0.0)); y = float(bbox.get("y", 0.0))
\* w = float(bbox.get("w") or bbox.get("width") or 0.0)
\* h = float(bbox.get("h") or bbox.get("height") or 0.0)
BboxCorners(x, y, w, h) ==
  <<  <<x, y>>, <<x + w, y>>, <<x + w, y + h>>, <<x, y + h>>  >>

\* Variant: a box of zero width or height still gives corners.
BboxEmptyStrict(w, h) == w < 0 \/ h < 0

BboxEmpty(w, h) == w <= 0 \/ h <= 0

QwenPolygonFromBbox(bbox) ==
  LET x == FloatOf(GetDefault(bbox, "x", Num(0)))
      y == FloatOf(GetDefault(bbox, "y", Num(0)))
      w == FloatOf(Or(Or(Get(bbox, "w"), Get(bbox, "width")), Num(0)))
      h == FloatOf(Or(Or(Get(bbox, "h"), Get(bbox, "height")), Num(0)))
      parts == <<x, y, w, h>>
  IN IF FirstRaise(parts) # Null THEN FirstRaise(parts)
     ELSE IF BboxEmpty(w.v, h.v) THEN Null
     ELSE Poly(BboxCorners(x.v, y.v, w.v, h.v))

QwenExtractPolygon(node) ==
  LET polygon == Or(Or(Get(node, "polygon"), Get(node, "points")), Get(node, "quad"))
      bbox == Or(Or(Get(node, "bbox"), Get(node, "bounding_box")), Get(node, "box"))
  IN IF IsPointListShape(polygon) THEN PointList(polygon.v)
     ELSE IF bbox.t = "dict" THEN QwenPolygonFromBbox(bbox)
     ELSE IF IsFlatShape(polygon) THEN FlatPairs(polygon.v)
     ELSE Null

(***************************************************************************)
(* _parse_blocks, the confidence filter and the newline join.              *)
(***************************************************************************)
ExtractText(b, item) ==
  IF b = "aliyun" THEN AliyunExtractText(item) ELSE QwenExtractText(item)
ExtractConfidence(b, item) ==
  IF b = "aliyun" THEN AliyunExtractConfidence(item) ELSE QwenExtractConfidence(item)
ExtractPolygon(b, item) ==
  IF b = "aliyun" THEN AliyunExtractPolygon(item) ELSE QwenExtractPolygon(item)

\* OcrTextSpan(text=..., confidence=..., polygon=..., line_index=...): the
\* schema takes a polygon only as a list of pairs.
SpanOf(text, confidence, polygon, index) ==
  IF polygon.t = "poly" /\ \E i \in 1..Len(polygon.v) : Len(polygon.v[i]) # 2
  THEN Raise("ValidationError")
  ELSE [t |-> "span", text |-> text, confidence |-> confidence,
        polygon |-> polygon, line_index |-> index]

\* for index, item in enumerate(candidates): ... from position i (1-based)
\* on; index is i - 1. Ok(list of spans) or the first Raise.
RECURSIVE ParseFrom(_, _, _)
ParseFrom(b, candidates, i) ==
  IF i > Len(candidates) THEN List(<<>>)
  ELSE LET item == candidates[i]
           text == ExtractText(b, item)
       IN IF text = <<>> THEN ParseFrom(b, candidates, i + 1)
          ELSE LET confidence == ExtractConfidence(b, item)
                   polygon == ExtractPolygon(b, item)
               IN IF polygon.t = "raise" THEN polygon
                  ELSE LET span == SpanOf(text, confidence, polygon, i - 1)
                       IN IF span.t = "raise" THEN span
                          ELSE LET rest == ParseFrom(b, candidates, i + 1)
                               IN IF rest.t = "raise" THEN rest
                                  ELSE List(<<span>> \o rest.v)

Candidates(b, payload) ==
  IF b = "aliyun" THEN AliyunCollectCandidates(AliyunExtractBody(payload))
  ELSE QwenCollectTextNodes(Get(payload, "output"))

ParseBlocks(b, payload) == ParseFrom(b, Candidates(b, payload), 1)

\* Variant: the threshold is an exclusive bound.
ConfidenceFilterStrict(blocks, threshold) ==
  SelectSeq(blocks, LAMBDA block :
    block.confidence = Null \/ block.confidence.v > threshold)

\* Variant: the spans that pass are numbered again.
ConfidenceFilterRenumbered(blocks, threshold) ==
  LET kept == SelectSeq(blocks, LAMBDA block :
                block.confidence = Null \/ block.confidence.v >= threshold)
  IN [i \in 1..Len(kept) |-> [kept[i] EXCEPT !.line_index = i - 1]]

\* [block for block in blocks
\*    if block.confidence is None or block.confidence >= min_conf]
ConfidenceFilter(blocks, threshold) ==
  SelectSeq(blocks, LAMBDA block :
    block.confidence = Null \/ block.confidence.v >= threshold)

\* Variant: every text is followed by a newline, the last one too.
RECURSIVE JoinNewlineTrailing(_)
JoinNewlineTrailing(texts) ==
  IF texts = <<>> THEN <<>>
  ELSE texts[1] \o <<NL>> \o JoinNewlineTrailing(Tail(texts))

\* "\n".join(block.text for block in filtered)
RECURSIVE JoinNewline(_)
JoinNewline(texts) ==
  IF texts = <<>> THEN <<>>
  ELSE IF Len(texts) = 1 THEN texts[1]
  ELSE texts[1] \o <<NL>> \o JoinNewline(Tail(texts))

ToRaw(b, resp) ==
  IF b = "aliyun" THEN AliyunToDict(resp) ELSE QwenSerializeResponse(resp)

OcrResultOf(b, blocks, full_text, rawv) ==
  [t |-> "OcrResult", backend |-> b, blocks |-> blocks,
   full_text |-> full_text, raw |-> rawv]

(***************************************************************************)
(* _execute: the retry loop.                                               *)
(***************************************************************************)
Backends == {"aliyun", "qwen"}

\* "Qwen OCR request failed.", abbreviated
QwenDefaultMessage == Str(<<"Q", "f">>)

\* Variant: a response without a status counts as a success.
QwenStatusFailureLenient(resp) ==
  IF GetDefault(resp, "status_code", Num(SuccessStatus)) # Num(SuccessStatus)
  THEN Exc("RuntimeError", GetDefault(resp, "message", QwenDefaultMessage))
  ELSE Null

\* if getattr(response, "status_code", 500) != 200:
\*     raise RuntimeError(getattr(response, "message", "Qwen OCR request failed."))
QwenStatusFailure(resp) ==
  IF GetDefault(resp, "status_code", Num(DefaultStatus)) # Num(SuccessStatus)
  THEN Exc("RuntimeError", GetDefault(resp, "message", QwenDefaultMessage))
  ELSE Null

\* What one attempt's try block raises (Null: it returns the response).
AttemptFailure(b, outcome) ==
  IF outcome.t = "exc" THEN outcome
  ELSE IF b = "qwen" THEN QwenStatusFailure(outcome)
  ELSE Null

\* Variant: the loop gives up one attempt early.
IsFinalAttemptEarly(a, n) == a >= n - 1

\* if attempt == self.retries: raise
IsFinalAttempt(a, n) == a = n

\* wait = self.backoff ** attempt
RECURSIVE Wait(_, _)
Wait(base, a) == IF a <= 0 THEN 1 ELSE base * Wait(base, a - 1)

\* What call() can do: raise a transport exception or return a response.
TransportErrors == {Exc("ConnectionError", Str(<<"e", "1">>)),
                    Exc("TimeoutError", Str(<<"e", "2">>))}

QwenResponses(output) ==
  {Obj(st \o msg \o << <<"output", output>> >>) :
     st \in {<<>>, << <<"status_code", Num(SuccessStatus)>> >>,
             << <<"status_code", Num(DefaultStatus)>> >>},
     msg \in {<<>>, << <<"message", Str(<<"m">>)>> >>}}

CallOutcomes(b, rep) ==
  TransportErrors \cup (IF b = "qwen" THEN QwenResponses(rep) ELSE {rep})

AttemptReturns ==
  /\ pc = "execute"
  /\ attempt \in 1..retries
  /\ \E outcome \in CallOutcomes(backend, reply) :
       /\ AttemptFailure(backend, outcome) = Null
       /\ outcomes' = Append(outcomes, outcome)
       /\ response' = outcome
  /\ calls' = calls + 1
  /\ pc' = "returned"
  /\ UNCHANGED <<backend, retries, backoff, min_conf, reply, attempt, sleeps,
                 failures, raised, raw, cands, parsed, result>>

AttemptRetries ==
  /\ pc = "execute"
  /\ attempt \in 1..retries
  /\ ~IsFinalAttempt(attempt, retries)
  /\ \E outcome \in CallOutcomes(backend, reply) :
       /\ AttemptFailure(backend, outcome) # Null
       /\ outcomes' = Append(outcomes, outcome)
       /\ failures' = Append(failures, AttemptFailure(backend, outcome))
  /\ calls' = calls + 1
  /\ sleeps' = Append(sleeps, Wait(backoff, attempt))
  /\ attempt' = attempt + 1
  /\ UNCHANGED <<backend, retries, backoff, min_conf, reply, pc, raised,
                 response, raw, cands, parsed, result>>

AttemptRaises ==
  /\ pc = "execute"
  /\ attempt \in 1..retries
  /\ IsFinalAttempt(attempt, retries)
  /\ \E outcome \in CallOutcomes(backend, reply) :
       /\ AttemptFailure(backend, outcome) # Null
       /\ outcomes' = Append(outcomes, outcome)
       /\ failures' = Append(failures, AttemptFailure(backend, outcome))
       /\ raised' = AttemptFailure(backend, outcome)
  /\ calls' = calls + 1
  /\ pc' = "raised"
  /\ UNCHANGED <<backend, retries, backoff, min_conf, reply, attempt, sleeps,
                 response, raw, cands, parsed, result>>

\* Variant: a loop that ends without a return raises instead of returning None.
LoopEndsRaising ==
  /\ pc = "execute"
  /\ attempt \notin 1..retries
  /\ raised' = Exc("RuntimeError", QwenDefaultMessage)
  /\ pc' = "raised"
  /\ UNCHANGED <<backend, retries, backoff, min_conf, reply, attempt, calls,
                 sleeps, outcomes, failures, response, raw, cands, parsed, result>>

\* range(1, self.retries + 1) is exhausted without a return or a raise: the
\* function ends and returns None.
LoopEnds ==
  /\ pc = "execute"
  /\ attempt \notin 1..retries
  /\ response' = Null
  /\ pc' = "returned"
  /\ UNCHANGED <<backend, retries, backoff, min_conf, reply, attempt, calls,
                 sleeps, outcomes, failures, raised, raw, cands, parsed, result>>

(***************************************************************************)
(* recognize, after _execute returned.                                     *)
(***************************************************************************)
Recognize ==
  /\ pc = "returned"
  /\ LET rawv == ToRaw(backend, response)
         blocks == ParseBlocks(backend, rawv)
     IN /\ raw' = rawv
        /\ cands' = Candidates(backend, rawv)
        /\ parsed' = blocks
        /\ IF blocks.t = "raise"
           THEN /\ raised' = blocks
                /\ result' = Null
                /\ pc' = "parse_raised"
           ELSE LET filtered == ConfidenceFilter(blocks.v, min_conf)
                    full_text == JoinNewline([i \in 1..Len(filtered) |-> filtered[i].text])
                IN /\ result' = OcrResultOf(backend, filtered, full_text, rawv)
                   /\ raised' = raised
                   /\ pc' = "done"
  /\ UNCHANGED <<backend, retries, backoff, min_conf, reply, attempt, calls,
                 sleeps, outcomes, failures, response>>

(***************************************************************************)
(* The replies the provider is taken to send.                              *)
(***************************************************************************)
TextKeys(b) == IF b = "aliyun" THEN AliyunTextKeys ELSE QwenTextKeys
ConfKeys(b) == IF b = "aliyun" THEN AliyunConfKeys ELSE QwenConfKeys
PolygonKeys(b) ==
  IF b = "aliyun" THEN <<"Polygon", "Quad", "Points">>
  ELSE <<"polygon", "points", "quad">>

\* Items that differ in their text and confidence fields.
TextItems(b) ==
  LET tk == TextKeys(b)
      ck == ConfKeys(b)
  IN { Dict(<< <<tk[1], Str(<<"a">>)>>, <<ck[1], Num(92)>> >>),
       Dict(<< <<tk[1], Str(<<" ", "b", NL>>)>>, <<ck[1], Num(50)>> >>),
       Dict(<< <<tk[1], Str(<<>>)>>, <<tk[2], Str(<<"a", "b">>)>>, <<ck[1], Num(40)>> >>),
       Dict(<< <<tk[1], Str(<<" ">>)>>, <<tk[2], Str(<<"a", NL, "b">>)>> >>),
       Dict(<< <<tk[1], Num(5)>>, <<tk[2], Str(<<NL, " ">>)>>, <<tk[3], Str(<<>>)>>,
               <<ck[1], Num(90)>> >>),
       Dict(<< <<tk[1], Null>>, <<tk[3], Str(<<"b">>)>>,
               <<ck[1], Str(<<"x">>)>>, <<ck[2], Num(100)>> >>),
       Dict(<< <<tk[1], Str(<<"a", " ", "b">>)>>, <<ck[1], Bool(TRUE)>> >>),
       Dict(<< <<ck[1], Num(90)>> >>) }

SeqsUpTo(S, n) == UNION {[1..k -> S] : k \in 0..n}

\* Responses of the structured API holding the items.
AliyunResponses(items) ==
  { Obj(<< <<"to_map",
             Dict(<< <<"body", Dict(<< <<"Data",
                        Dict(<< <<"Results", List(items)>> >>)>> >>)>> >>)>> >>),
    Dict(<< <<"body", Dict(<< <<"Lines", List(<<Str(<<"x">>)>> \o items)>> >>)>> >>),
    Dict(<< <<"Blocks", List(items)>>,
            <<"Results", List(<<Dict(<< <<"Word", Str(<<"a">>)>> >>)>>)>> >>) }

\* Output trees of the vision model holding the items.
QwenOutputs(items) ==
  { Dict(<< <<"results", List(items)>> >>),
    Dict(<< <<"text", Str(<<"b">>)>>, <<"children", List(items)>> >>),
    List(<<Dict(<< <<"value", List(items)>> >>)>>) }

\* A response of the vision model that _execute returns.
QwenSuccess(output) ==
  Obj(<< <<"status_code", Num(SuccessStatus)>>, <<"output", output>> >>)

TextReplies(b) ==
  UNION { IF b = "aliyun" THEN AliyunResponses(items) ELSE QwenOutputs(items) :
          items \in SeqsUpTo(TextItems(b), MaxItems) }

\* Items that differ in their geometry fields.
PointLists ==
  { List(<<List(<<Num(0), Num(0)>>), List(<<Num(1), Num(0)>>), List(<<Num(1), Num(1)>>)>>),
    List(<<List(<<Num(1), Num(2), Num(3)>>), List(<<Num(4), Num(5)>>)>>),
    List(<<List(<<Str(<<"1">>), Num(2)>>)>>) }

FlatLists ==
  { List(<<Num(0), Num(0), Num(1), Num(0), Num(1), Num(1)>>),
    List(<<Num(0), Num(0), Num(1)>>) }

OddLists ==
  { List(<<List(<<Num(0), Num(0)>>), Num(5)>>),
    List(<<List(<<Num(0), Num(0)>>), Null>>),
    List(<<List(<<Num(0), Num(0)>>), Str(<<"1", "2">>)>>),
    List(<<List(<<Str(<<"a">>), Num(1)>>)>>),
    List(<<List(<<Num(1)>>)>>),
    List(<<Num(1), Str(<<"a">>)>>),
    List(<<>>),
    Str(<<"a", "b">>) }

Field(k, S) == {<< <<k, x>> >> : x \in S}

NumericBoxes ==
  { Dict(x \o y \o w \o h) :
      x \in {<<>>} \cup Field("x", {Num(n) : n \in 0..MaxCoord}),
      y \in {<<>>} \cup Field("y", {Num(0), Num(2)}),
      w \in {<<>>} \cup Field("w", {Num(n) : n \in -1..MaxCoord}),
      h \in {<<>>} \cup Field("h", {Num(-1), Num(0), Num(4)}) }

OddBoxes ==
  { Dict(<< <<"x", Null>>, <<"y", Num(2)>>, <<"w", Num(3)>>, <<"h", Num(4)>> >>),
    Dict(<< <<"x", Num(1)>>, <<"y", Num(2)>>, <<"w", Str(<<"a">>)>>, <<"h", Num(4)>> >>),
    Dict(<< <<"x", Num(1)>>, <<"y", Num(2)>>, <<"w", Num(3)>>, <<"h", Null>> >>),
    Dict(<< <<"x", Str(<<"1">>)>>, <<"y", Num(2)>>, <<"w", Num(3)>>, <<"h", Num(4)>> >>),
    Dict(<< <<"x", Num(1)>>, <<"y", Num(2)>>, <<"width", Num(3)>>, <<"height", Num(4)>> >>),
    Dict(<< <<"x", Num(1)>>, <<"y", Num(2)>>, <<"w", Num(0)>>, <<"width", Num(3)>>,
            <<"h", Num(4)>> >>),
    List(<<Num(1), Num(2), Num(3), Num(4)>>),
    Dict(<<>>) }

GeomItems(b) ==
  LET txt == << <<TextKeys(b)[1], Str(<<"a">>)>> >>
      pk == PolygonKeys(b)
      plain == {<<>>} \cup Field(pk[1], PointLists \cup FlatLists)
      odd == Field(pk[1], OddLists) \cup Field(pk[2], FlatLists) \cup Field(pk[3], PointLists)
  IN { Dict(txt \o p \o bx) : p \in plain, bx \in {<<>>} \cup Field("bbox", NumericBoxes) }
     \cup { Dict(txt \o p \o bx) :
              p \in plain \cup odd,
              bx \in {<<>>} \cup Field("bbox", OddBoxes) \cup Field("box", OddBoxes) }
     \cup { Dict(txt \o p \o bx) : p \in odd, bx \in Field("bounding_box", OddBoxes) }

GeomReplies(b) ==
  { IF b = "aliyun"
    THEN Dict(<< <<"body", Dict(<< <<"Data", Dict(<< <<"Results", List(<<item>>)>> >>)>> >>)>> >>)
    ELSE Dict(<< <<"results", List(<<item>>)>> >>) : item \in GeomItems(b) }

\* Replies for the retry loop: one with text, one without.
RetryReplies(b) ==
  LET items == <<Dict(<< <<TextKeys(b)[1], Str(<<"a">>)>> >>)>>
  IN IF b = "aliyun"
     THEN {Dict(<< <<"body", Dict(<< <<"Data", Dict(<< <<"Results", List(items)>> >>)>> >>)>> >>),
           Dict(<<>>)}
     ELSE {Dict(<< <<"results", List(items)>> >>), Null}

Thresholds == {50, 100}
BackoffBases == {2, 3}

(***************************************************************************)
(* Specifications.                                                         *)
(***************************************************************************)
Fresh ==
  /\ attempt = 1
  /\ calls = 0
  /\ sleeps = <<>>
  /\ outcomes = <<>>
  /\ failures = <<>>
  /\ raised = Null
  /\ raw = Null
  /\ cands = <<>>
  /\ parsed = Null
  /\ result = Null

\* A client as constructed, recognize about to run _execute.
Init ==
  /\ backend \in Backends
  /\ retries \in -1..MaxRetries
  /\ backoff \in BackoffBases
  /\ min_conf \in Thresholds
  /\ reply \in RetryReplies(backend)
  /\ pc = "execute"
  /\ response = Null
  /\ Fresh

Next ==
  \/ AttemptReturns
  \/ AttemptRetries
  \/ AttemptRaises
  \/ LoopEnds
  \/ Recognize

Spec == Init /\ [][Next]_vars

\* recognize at the point where _execute has returned a response on its
\* first attempt; the rest of recognize is a function of that response.
Returned(replies) ==
  /\ retries = 1
  /\ backoff \in {2}
  /\ min_conf \in Thresholds
  /\ reply \in replies
  /\ response = (IF backend = "qwen" THEN QwenSuccess(reply) ELSE reply)
  /\ pc = "returned"
  /\ attempt = 1
  /\ calls = 1
  /\ sleeps = <<>>
  /\ outcomes = <<response>>
  /\ failures = <<>>
  /\ raised = Null
  /\ raw = Null
  /\ cands = <<>>
  /\ parsed = Null
  /\ result = Null

InitParse == \E b \in Backends : backend = b /\ Returned(TextReplies(b))

InitGeom == \E b \in Backends : backend = b /\ Returned(GeomReplies(b))

NextParse == Recognize

SpecParse == InitParse /\ [][NextParse]_vars

SpecGeom == InitGeom /\ [][NextParse]_vars

(***************************************************************************)
(* Properties of the retry loop.                                           *)
(***************************************************************************)
\* The outcome of attempt i was a response that did not report success.
NonSuccess(o) ==
  o.t # "exc" /\ (~Has(o, "status_code") \/ Get(o, "status_code") # Num(SuccessStatus))

\* Attempt i counted as failed, with failure f: recorded, followed by the
\* backoff sleep unless it was the last attempt, raised if it was.
HandledAsFailure(i, f) ==
  /\ i <= Len(failures)
  /\ failures[i] = f
  /\ i < retries => (i <= Len(sleeps) /\ sleeps[i] = Wait(backoff, i))
  /\ i = retries => (pc = "raised" /\ raised = f /\ Len(sleeps) = i - 1)

\* C1: when every attempt of _execute fails (either adapter, retries = N >= 1)
\* the call has been invoked exactly N times, exactly N-1 backoff sleeps have
\* happened (one after each failed attempt but the last), the failure raised
\* is the last attempt's failure itself, and recognize produces no OcrResult.
C1_RetryExhaustion ==
  /\ pc = "execute" =>
       /\ calls = attempt - 1
       /\ Len(sleeps) = calls
       /\ Len(failures) = calls
  /\ pc = "raised" =>
       /\ retries >= 1
       /\ calls = retries
       /\ Len(outcomes) = retries
       /\ Len(sleeps) = retries - 1
       /\ \A i \in 1..Len(sleeps) : sleeps[i] = Wait(backoff, i)
       /\ \A i \in 1..retries : AttemptFailure(backend, outcomes[i]) # Null
       /\ outcomes[retries].t = "exc" => raised = outcomes[retries]
       /\ raised = failures[retries]
       /\ result = Null

C1_Witness ==
  /\ pc = "raised"
  /\ retries >= 3
  /\ calls = retries
  /\ Len(sleeps) = retries - 1
  /\ outcomes[1] # outcomes[retries]
  /\ outcomes[retries].t = "exc"

\* C2: in the Qwen adapter a response whose status is not 200 (or is missing)
\* is never what _execute returns: it becomes a RuntimeError carrying the
\* provider's message when there is one, counts as a failed attempt and is
\* slept on and retried, or raised on the last attempt, exactly as a raised
\* exception is; a returned response reported status 200.
C2_NonSuccessIsFailure ==
  backend = "qwen" =>
    /\ (pc \in {"returned", "done", "parse_raised"} /\ calls > 0) =>
         /\ response = outcomes[Len(outcomes)]
         /\ Has(response, "status_code")
         /\ Get(response, "status_code") = Num(SuccessStatus)
    /\ \A i \in 1..Len(outcomes) :
         /\ NonSuccess(outcomes[i]) =>
              /\ HandledAsFailure(i, failures[i])
              /\ failures[i].t = "exc"
              /\ failures[i].kind = "RuntimeError"
              /\ Has(outcomes[i], "message") => failures[i].msg = Get(outcomes[i], "message")
              /\ ~Has(outcomes[i], "message") => failures[i].msg = QwenDefaultMessage
         /\ outcomes[i].t = "exc" => HandledAsFailure(i, outcomes[i])

C2_Witness ==
  /\ backend = "qwen"
  /\ pc = "done"
  /\ Len(outcomes) = 3
  /\ NonSuccess(outcomes[1]) /\ Has(outcomes[1], "message")
  /\ NonSuccess(outcomes[2]) /\ ~Has(outcomes[2], "status_code")
  /\ Len(sleeps) = 2

(***************************************************************************)
(* Properties of recognize after a successful call.                        *)
(***************************************************************************)
Kept(span) == span.confidence = Null \/ span.confidence.v >= min_conf

\* C3: the blocks of the result are exactly the parsed spans whose confidence
\* is null or >= min_conf, in their original order: a null confidence passes
\* every threshold, a confidence equal to the threshold passes, a confidence
\* below it is removed.
C3_ConfidenceFilter ==
  pc = "done" =>
    LET p == parsed.v
        b == result.blocks
    IN /\ \A i \in 1..Len(p) : Kept(p[i]) <=> \E j \in 1..Len(b) : b[j] = p[i]
       /\ Len(b) = Cardinality({i \in 1..Len(p) : Kept(p[i])})
       /\ \A j, k \in 1..Len(b) : j < k =>
            \E i, l \in 1..Len(p) : i < l /\ p[i] = b[j] /\ p[l] = b[k]

C3_Witness ==
  /\ pc = "done"
  /\ min_conf = 100
  /\ Len(parsed.v) = 3
  /\ Len(result.blocks) = 2
  /\ parsed.v[1].confidence = Null /\ result.blocks[1] = parsed.v[1]
  /\ parsed.v[2].confidence = Num(92)
  /\ parsed.v[3].confidence = Num(100) /\ result.blocks[2] = parsed.v[3]

\* C4: line_index is the 0-based position of the span among the spans that
\* _parse_blocks emits: the k-th emitted span has line_index k, a dropped
\* candidate takes no slot.
C4_IndexAmongEmitted ==
  parsed.t = "list" =>
    \A k \in 1..Len(parsed.v) : parsed.v[k].line_index = k - 1

\* C5: in a result the line_index values are unique and strictly increasing
\* in blocks order, and each block is the span as _parse_blocks produced it,
\* line_index included: filtering leaves gaps and never renumbers.
C5_IndexKept ==
  pc = "done" =>
    LET p == parsed.v
        b == result.blocks
    IN /\ \A j, k \in 1..Len(b) : j < k => b[j].line_index < b[k].line_index
       /\ \A j, k \in 1..Len(p) : j < k => p[j].line_index < p[k].line_index
       /\ \A j \in 1..Len(b) :
            \E i \in 1..Len(p) :
              /\ p[i].text = b[j].text
              /\ p[i].confidence = b[j].confidence
              /\ p[i].line_index = b[j].line_index

C5_Witness ==
  /\ pc = "done"
  /\ Len(parsed.v) = 3
  /\ Len(result.blocks) = 2
  /\ \A i \in 1..3 : parsed.v[i].line_index = i - 1
  /\ result.blocks[1].line_index = 0
  /\ result.blocks[2].line_index = 2

\* Where the k-th text starts in the joined text (0-based offset).
RECURSIVE JoinOffset(_, _)
JoinOffset(b, k) ==
  IF k <= 1 THEN 0 ELSE JoinOffset(b, k - 1) + Len(b[k - 1].text) + 1

\* C6: full_text is the texts of the result's blocks, in order, separated by
\* single newlines, and is empty when there are no blocks.
C6_FullText ==
  pc = "done" =>
    LET b == result.blocks
        ft == result.full_text
        n == Len(b)
    IN IF n = 0 THEN ft = <<>>
       ELSE /\ Len(ft) = JoinOffset(b, n) + Len(b[n].text)
            /\ \A k \in 1..n :
                 SubSeq(ft, JoinOffset(b, k) + 1, JoinOffset(b, k) + Len(b[k].text))
                   = b[k].text
            /\ \A k \in 2..n : ft[JoinOffset(b, k)] = NL

C6_Witness ==
  /\ pc = "done"
  /\ Len(parsed.v) = 3
  /\ Len(result.blocks) = 2
  /\ result.blocks[1].text = <<"a", NL, "b">>
  /\ result.full_text = <<"a", NL, "b", NL, "b">>

\* C7: parsing a successful response never raises, whatever the shape of the
\* fields of the response tree.
C7_ParseNeverRaises == pc # "parse_raised"

\* The keys of the candidate, in priority order, whose value is a string with
\* a character that is not white space.
UsableTextKeys(b, item) ==
  {k \in 1..Len(TextKeys(b)) :
     LET value == Get(item, TextKeys(b)[k])
     IN value.t = "str" /\ \E i \in 1..Len(value.v) : ~IsSpace(value.v[i])}

\* text is value without the white space at its two ends.
IsTrimOf(text, value) ==
  /\ text # <<>>
  /\ ~IsSpace(text[1])
  /\ ~IsSpace(text[Len(text)])
  /\ \E a \in 1..Len(value) :
       /\ a + Len(text) - 1 <= Len(value)
       /\ SubSeq(value, a, a + Len(text) - 1) = text
       /\ \A i \in 1..Len(value) : (i < a \/ i > a + Len(text) - 1) => IsSpace(value[i])

\* C8: every span of _parse_blocks and of the result has a non-empty text
\* with no white space at its ends; a candidate with no usable text field
\* gives no span, and otherwise its span carries the trimmed value of the
\* first usable key in priority order.
C8_TextTrimmed ==
  pc = "done" =>
    LET p == parsed.v
        b == result.blocks
    IN /\ \A i \in 1..Len(p) : IsTrimOf(p[i].text, p[i].text)
       /\ \A j \in 1..Len(b) : IsTrimOf(b[j].text, b[j].text)
       /\ \A c \in 1..Len(cands) :
            LET usable == UsableTextKeys(backend, cands[c])
                spans == {i \in 1..Len(p) : p[i].line_index = c - 1}
            IN IF usable = {} THEN spans = {}
               ELSE /\ Cardinality(spans) = 1
                    /\ \A i \in spans :
                         IsTrimOf(p[i].text,
                                  Get(cands[c], TextKeys(backend)[SeqMin(usable)]).v)

C8_Witness ==
  /\ pc = "done"
  /\ Len(cands) >= 3
  /\ \E c \in 1..Len(cands) : UsableTextKeys(backend, cands[c]) = {}
  /\ \E c \in 1..Len(cands) :
       /\ Get(cands[c], TextKeys(backend)[1]) = Str(<<" ">>)
       /\ \E i \in 1..Len(parsed.v) :
            parsed.v[i].line_index = c - 1 /\ parsed.v[i].text = <<"a", NL, "b">>
  /\ \E i \in 1..Len(parsed.v) : parsed.v[i].text = <<"b">> /\ parsed.v[i].confidence = Num(50)

(***************************************************************************)
(* Properties of the geometry of the Qwen adapter.                         *)
(***************************************************************************)
\* The point list of the node: the first of polygon, points, quad that is
\* not empty.
PointField(node) ==
  IF Truthy(Get(node, "polygon")) THEN Get(node, "polygon")
  ELSE IF Truthy(Get(node, "points")) THEN Get(node, "points")
  ELSE Get(node, "quad")

\* A bounding box whose origin and size are numbers where they are given.
IsNumericBox(bbox) ==
  /\ bbox.t = "dict"
  /\ Len(bbox.v) > 0
  /\ \A k \in {"x", "y"} : Has(bbox, k) => Get(bbox, k).t = "num"
  /\ \A k \in {"w", "width", "h", "height"} :
       Has(bbox, k) => Get(bbox, k).t \in {"num", "null"}

BoxOrigin(bbox, k) == IF Has(bbox, k) THEN Get(bbox, k).v ELSE 0

BoxSize(bbox, short, long) ==
  IF Get(bbox, short).t = "num" /\ Get(bbox, short).v # 0 THEN Get(bbox, short).v
  ELSE IF Get(bbox, long).t = "num" THEN Get(bbox, long).v
  ELSE 0

\* C9: the polygon made from a bounding box with origin (x, y) and size
\* (w, h) is null when w <= 0 or h <= 0 (a missing width or height included)
\* and otherwise the corners (x, y), (x+w, y), (x+w, y+h), (x, y+h) in that
\* order.
C9_PolygonFromBbox ==
  (/\ backend = "qwen"
   /\ pc = "done"
   /\ Len(cands) = 1
   /\ ~IsPointListShape(PointField(cands[1]))
   /\ IsNumericBox(Get(cands[1], "bbox"))) =>
    LET bbox == Get(cands[1], "bbox")
        x == BoxOrigin(bbox, "x")
        y == BoxOrigin(bbox, "y")
        w == BoxSize(bbox, "w", "width")
        h == BoxSize(bbox, "h", "height")
        polygon == parsed.v[1].polygon
    IN IF w <= 0 \/ h <= 0 THEN polygon = Null
       ELSE /\ polygon.t = "poly"
            /\ Len(polygon.v) = 4
            /\ polygon.v[1] = <<x, y>>
            /\ polygon.v[2] = <<x + w, y>>
            /\ polygon.v[3] = <<x + w, y + h>>
            /\ polygon.v[4] = <<x, y + h>>

C9_Witness ==
  /\ backend = "qwen"
  /\ pc = "done"
  /\ Len(cands) = 1
  /\ Get(cands[1], "bbox") =
       Dict(<< <<"x", Num(1)>>, <<"y", Num(2)>>, <<"w", Num(3)>>, <<"h", Num(4)>> >>)
  /\ ~Has(cands[1], "polygon")
  /\ parsed.v[1].polygon = Poly(<< <<1, 2>>, <<4, 2>>, <<4, 6>>, <<1, 6>> >>)

\* C10: in the Qwen adapter a point list under polygon, points or quad, as a
\* list of point entries or as a flat list of numbers, decides the span's
\* polygon; the bounding box is used only when the node has no point list.
C10_PointListBeforeBbox ==
  (/\ backend = "qwen"
   /\ pc = "done"
   /\ Len(cands) = 1) =>
    LET field == PointField(cands[1])
        polygon == parsed.v[1].polygon
    IN /\ IsPointListShape(field) => polygon = PointList(field.v)
       /\ (IsFlatShape(field) /\ Len(field.v) > 0) => polygon = FlatPairs(field.v)

(***************************************************************************)
(* The retry loop with and without an attempt budget.                      *)
(***************************************************************************)
\* The call of attempt i got through: it returned, and for the Qwen adapter
\* the response reported status 200.
Succeeded(o) ==
  /\ o.t # "exc"
  /\ backend = "qwen" => (Has(o, "status_code") /\ Get(o, "status_code") = Num(SuccessStatus))

\* C11: with retries <= 0 _execute makes no remote call, sleeps never, raises
\* nothing and returns None, and recognize returns an OcrResult with no blocks
\* and an empty full_text; with retries >= 1 a response is returned, and a
\* result built, only from a call that succeeded, after exactly k calls and
\* k-1 sleeps where k is the first attempt that succeeded, and no call follows.
C11_AttemptBudget ==
  /\ retries <= 0 =>
       /\ pc \in {"execute", "returned", "done"}
       /\ calls = 0
       /\ outcomes = <<>>
       /\ sleeps = <<>>
       /\ raised = Null
       /\ response = Null
       /\ pc = "done" =>
            /\ result.t = "OcrResult"
            /\ result.blocks = <<>>
            /\ result.full_text = <<>>
  /\ (retries >= 1 /\ pc \in {"returned", "done", "parse_raised"}) =>
       /\ calls >= 1
       /\ calls <= retries
       /\ Len(outcomes) = calls
       /\ Succeeded(outcomes[calls])
       /\ \A i \in 1..(calls - 1) : ~Succeeded(outcomes[i])
       /\ response = outcomes[calls]
       /\ Len(sleeps) = calls - 1
  /\ (retries >= 1 /\ pc = "done") => result.raw = ToRaw(backend, outcomes[calls])

C11_Witness ==
  /\ retries = 0
  /\ pc = "done"
  /\ calls = 0
  /\ sleeps = <<>>
  /\ reply # Null
  /\ reply # Dict(<<>>)
  /\ result.blocks = <<>>
  /\ result.full_text = <<>>

====
